---- MODULE Spec2Model ----
(***************************************************************************)
(* A model of the smart consumer of kafka-pixy (consumer/consumer.go):     *)
(* the partition assignment function, the exclusive consumer, the topic    *)
(* consumer, and the group consumer with its rebalancing.                  *)
(***************************************************************************)
EXTENDS Integers, Sequences, FiniteSets, TLC

(***************************************************************************)
(* Part 1.  assignPartitionsToSubscribers (consumer.go:417-448)            *)
(***************************************************************************)

\* Bounds of the assignment inputs.
MaxPartitions == 3
MaxSubscribers == 3

\* Subscriber IDs are strings; a string is modelled as a sequence of
\* character codes so that sort.StringSlice's order can be computed.
SubscriberIDs == {<< 1 >>, << 1, 1 >>, << 1, 2 >>, << 2 >>}

Min(a, b) == IF a < b THEN a ELSE b

\* Go's string comparison: bytewise lexicographic, a proper prefix is less.
RECURSIVE StringLessFrom(_, _, _)
StringLessFrom(a, b, i) ==
  IF i > Len(a) THEN i <= Len(b)
  ELSE IF i > Len(b) THEN FALSE
  ELSE IF a[i] < b[i] THEN TRUE
  ELSE IF a[i] > b[i] THEN FALSE
  ELSE StringLessFrom(a, b, i + 1)

\* The comparison reversed.
StringGreater(a, b) == StringLessFrom(b, a, 1)

StringLess(a, b) == StringLessFrom(a, b, 1)

Int32Less(a, b) == a < b

\* Insert x into the sorted sequence s, before the first element it is less than.
RECURSIVE InsertInt(_, _)
InsertInt(x, s) ==
  IF s = << >> THEN << x >>
  ELSE IF Int32Less(x, Head(s)) THEN << x >> \o s
  ELSE << Head(s) >> \o InsertInt(x, Tail(s))

\* sort.Sort(Int32Slice(partitions)) left out.
SortInt32Unsorted(s) == s

RECURSIVE SortInt32(_)
SortInt32(s) == IF s = << >> THEN << >> ELSE InsertInt(Head(s), SortInt32(Tail(s)))

RECURSIVE InsertString(_, _)
InsertString(x, s) ==
  IF s = << >> THEN << x >>
  ELSE IF StringLess(x, Head(s)) THEN << x >> \o s
  ELSE << Head(s) >> \o InsertString(x, Tail(s))

RECURSIVE SortStrings(_)
SortStrings(s) == IF s = << >> THEN << >> ELSE InsertString(Head(s), SortStrings(Tail(s)))

\* m[k] |= v for a Go map[string]map[int32]bool modelled as a function from
\* the keys present to their partition sets.
MapAdd(m, k, v) ==
  [x \in DOMAIN m \cup {k} |->
     IF x = k THEN (IF k \in DOMAIN m THEN m[k] ELSE {}) \cup v ELSE m[x]]

EmptyMap == [x \in {} |-> {}]

\* The loop of lines 430-446 from subscriber index i on.
RECURSIVE AssignLoop(_, _, _, _, _, _, _)
AssignLoop(partitions, subscribers, i, begin, perSubscriber, extra, acc) ==
  IF i > Len(subscribers) THEN acc
  ELSE LET end == begin + perSubscriber + (IF extra # 0 THEN 1 ELSE 0)
           block == {partitions[j] : j \in (begin + 1)..end}
           acc2 == IF block = {} THEN acc ELSE MapAdd(acc, subscribers[i], block)
       IN  AssignLoop(partitions, subscribers, i + 1, end, perSubscriber,
                      IF extra # 0 THEN extra - 1 ELSE extra, acc2)

assignPartitionsToSubscribers(partitions, subscribers) ==
  IF Len(partitions) = 0 \/ Len(subscribers) = 0 THEN EmptyMap
  ELSE LET ps == SortInt32(partitions)
           ss == SortStrings(subscribers)
           perSubscriber == Len(ps) \div Len(ss)
           extra == Len(ps) - Len(ss) * perSubscriber
       IN  AssignLoop(ps, ss, 1, 0, perSubscriber, extra, EmptyMap)

\* The elements of a sequence.
Range(s) == {s[i] : i \in DOMAIN s}

\* Some sequence of the elements of a finite set: a Go map's keys in the
\* order an iteration gives them.
SetToSeq(S) == CHOOSE q \in [1..Cardinality(S) -> S] : Range(q) = S

\* The orders a list may come in.
Perms(s) == {t \in [DOMAIN s -> Range(s)] : Range(t) = Range(s)}

\* partitionsToSubscribers[id]: the partitions a subscriber holds in a result
\* map, none when it has no key.
Assigned(m, id) == IF id \in DOMAIN m THEN m[id] ELSE {}

VARIABLES aPartitions, aSubscribers, aResult, aPc

aVars == << aPartitions, aSubscribers, aResult, aPc >>

\* Sequences over S without repetition.
DistinctSeqs(S, maxLen) ==
  {s \in UNION {[1..n -> S] : n \in 0..maxLen} :
     \A i, j \in 1..Len(s) : i # j => s[i] # s[j]}

AssignInit ==
  /\ aPartitions \in DistinctSeqs(0..(MaxPartitions - 1), MaxPartitions)
  /\ aSubscribers \in DistinctSeqs(SubscriberIDs, MaxSubscribers)
  /\ aResult = EmptyMap
  /\ aPc = "call"

\* One call of assignPartitionsToSubscribers on the inputs.
AssignCall ==
  /\ aPc = "call"
  /\ aResult' = assignPartitionsToSubscribers(aPartitions, aSubscribers)
  /\ aPc' = "done"
  /\ UNCHANGED << aPartitions, aSubscribers >>

\* The caller presents the same lists in another order (Go map iteration
\* order in resolvePartitions, the broker's partition order) and calls again.
AssignReorder ==
  /\ aPc = "done"
  /\ \E i \in 0..(Len(aPartitions) - 1) :
       aPartitions' = IF i = 0 THEN aPartitions
                      ELSE [aPartitions EXCEPT ![i] = aPartitions[i + 1],
                                               ![i + 1] = aPartitions[i]]
  /\ \E i \in 0..(Len(aSubscribers) - 1) :
       aSubscribers' = IF i = 0 THEN aSubscribers
                       ELSE [aSubscribers EXCEPT ![i] = aSubscribers[i + 1],
                                                 ![i + 1] = aSubscribers[i]]
  /\ aResult' = assignPartitionsToSubscribers(aPartitions', aSubscribers')
  /\ aPc' = "done"

AssignNext == AssignCall \/ AssignReorder

(***************************************************************************)
(* Properties of the assignment.                                           *)
(***************************************************************************)

AssignInputsNonEmpty == Len(aPartitions) > 0 /\ Len(aSubscribers) > 0

\* C8: for non-empty partitions[] and subscribers[] with distinct IDs the
\* result does not depend on the order of the inputs, the per-subscriber sets
\* are pairwise disjoint, their union is exactly partitions[], and their
\* sizes differ by at most 1.
AssignDeterministicExactBalanced ==
  (aPc = "done" /\ AssignInputsNonEmpty) =>
    /\ \A p \in Perms(aPartitions), s \in Perms(aSubscribers) :
         assignPartitionsToSubscribers(p, s) = aResult
    /\ DOMAIN aResult \subseteq Range(aSubscribers)
    /\ \A a, b \in Range(aSubscribers) :
         a # b => Assigned(aResult, a) \cap Assigned(aResult, b) = {}
    /\ UNION {Assigned(aResult, a) : a \in Range(aSubscribers)} = Range(aPartitions)
    /\ \A a, b \in Range(aSubscribers) :
         Cardinality(Assigned(aResult, a)) - Cardinality(Assigned(aResult, b)) <= 1

\* C8 witness: three partitions given out of order to two subscribers given
\* out of order, and the call has returned.
AssignUnsortedCallDone ==
  /\ aPc = "done"
  /\ aPartitions = << 2, 0, 1 >>
  /\ aSubscribers = << << 2 >>, << 1, 2 >> >>

\* The reference range assignment: the ascending partitions and the
\* lexicographically ascending subscribers, stated without the code's sort.
RefPartitions ==
  CHOOSE p \in Perms(aPartitions) : \A i \in 1..(Len(p) - 1) : p[i] < p[i + 1]

RefSubscribers ==
  CHOOSE s \in Perms(aSubscribers) :
    \A i \in 1..(Len(s) - 1) : StringLessFrom(s[i], s[i + 1], 1)

RefQ == Len(aPartitions) \div Len(aSubscribers)

RefR == Len(aPartitions) % Len(aSubscribers)

\* The block of the i-th subscriber (from 1) of the sorted list.
RefBlock(i) ==
  LET start == (i - 1) * RefQ + Min(i - 1, RefR)
      size == RefQ + (IF i - 1 < RefR THEN 1 ELSE 0)
  IN  {RefPartitions[j] : j \in (start + 1)..(start + size)}

\* C9: the result equals the reference range assignment (the i-th sorted
\* subscriber holds q+1 consecutive sorted partitions if i < r and q
\* otherwise), and it is empty when either list is empty.
AssignEqualsRangeAssignment ==
  aPc = "done" =>
    IF AssignInputsNonEmpty
    THEN /\ DOMAIN aResult \subseteq Range(aSubscribers)
         /\ \A i \in 1..Len(aSubscribers) :
              Assigned(aResult, RefSubscribers[i]) = RefBlock(i)
    ELSE DOMAIN aResult = {}

\* C9 witness: 3 partitions and the subscribers "A" and "B" given as B, A:
\* A holds {0,1} and B holds {2}.
AssignThreeToTwo ==
  /\ aPc = "done"
  /\ aPartitions = << 2, 1, 0 >>
  /\ aSubscribers = << << 2 >>, << 1 >> >>
  /\ Assigned(aResult, << 1 >>) = {0, 1}
  /\ Assigned(aResult, << 2 >>) = {2}

(***************************************************************************)
(* Part 2.  The exclusive consumer (consumer.go:601-696), with the broker, *)
(* the partition offset manager and the partition claims it talks to, and  *)
(* the multiplexer that takes its messages.                                *)
(***************************************************************************)

\* The highest number of messages a partition's log holds.
MaxOffset == 1

\* sarama.OffsetNewest, the initial offset of a group with no stored offset.
OffsetNewest == -1

\* The partitions a topic may have.
Partitions == {0, 1}

\* An optional value: None or Some(x).
None == << >>

Some(x) == << x >>

\* The exclusive consumer objects: per partition, the one the gear holds and
\* one more that may still run after the gear dropped it.
EcSlots == {1, 2}

EcIds == Partitions \X EcSlots

MuxIds == {1, 2}

PartitionOf(e) == e[1]

\* The holder of a claim that is an exclusive consumer of another process.
OtherMember == << -1, 0 >>

\* The same once that exclusive consumer is past its initialization.
OtherFetching == << -1, 1 >>

VARIABLES
  ec,             \* EcIds -> the exclusive consumer's goroutine and fields
  owner,          \* partition -> the holder of its claim: None, Some(e),
                  \* Some(OtherMember), Some(OtherFetching)
  logEnd,         \* partition -> the offset of the next message to be produced
  kafkaCommitted, \* partition -> the group's offset stored in Kafka
  mux,            \* MuxIds -> the multiplexer's goroutine and fields
  crashed,        \* the process panicked
  req,            \* request -> where the Consume call is and its replies
  gcReqCh,        \* the requests channel of the group consumer's dispatcher
  disp,           \* the group consumer's dispatcher and its child tier
  tc,             \* the topic consumer: its goroutine, its requests channel
  mp,             \* the locals of managePartitions
  rebalanceResultCh,
  rb,             \* the rebalance goroutine
  rbRunning,      \* rebalance goroutines started whose result is not sent
  rw,             \* the rewireMultiplexer calls: of rebalance, of shutdown
  tg,             \* gc.topicGears and the topic's gear
  reg,            \* the group registry
  gcPc,           \* the goroutine of groupConsumer.start
  stopPc,         \* the call of T.Stop
  env             \* the topic's partitions and what the environment may still do

ecVars == << ec, owner, logEnd, kafkaCommitted >>

reqVars == << req, gcReqCh, disp, tc >>

groupVars == << mp, rebalanceResultCh, rb, rbRunning, rw, tg, reg, gcPc, stopPc >>

EcFresh ==
  [pc |-> "none", stopping |-> FALSE, claimed |-> FALSE, initialized |-> FALSE,
   msg |-> None, cursor |-> 0, lastSubmittedOffset |-> 0,
   lastCommittedOffset |-> 0, observed |-> 0, dirty |-> FALSE,
   committedOffsets |-> None]

MuxFresh ==
  [pc |-> "none", ins |-> {}, out |-> 0, src |-> None, stopping |-> FALSE]

EcInit ==
  /\ ec = [e \in EcIds |-> EcFresh]
  /\ owner = [p \in Partitions |-> None]
  /\ logEnd = [p \in Partitions |-> 0]
  /\ kafkaCommitted = [p \in Partitions |-> OffsetNewest]
  /\ mux = [m \in MuxIds |-> MuxFresh]
  /\ crashed = FALSE

\* spawnExclusiveConsumer: a new object with fresh channels whose goroutine
\* is at claimPartition.
spawnExclusiveConsumer == [EcFresh EXCEPT !.pc = "claim"]

\* pom.SubmitOffset(offset): the offset manager remembers the latest offset
\* submitted until it commits it.
SubmitOffset(r, offset) ==
  [r EXCEPT !.lastSubmittedOffset = offset, !.dirty = TRUE]

\* The deferred calls of run: pc.Close(), pom.Close() and the release of the
\* claim, which gives the partition up if this consumer holds it.
EcReturn(e, r) ==
  /\ ec' = [ec EXCEPT ![e] = [r EXCEPT !.pc = "done", !.committedOffsets = None,
                                       !.dirty = FALSE]]
  /\ owner' = [owner EXCEPT ![PartitionOf(e)] =
                 IF owner[PartitionOf(e)] = Some(e) THEN None ELSE @]

\* registry.claimPartition returns with the claim granted.
EcClaimGranted(e) ==
  /\ ~crashed
  /\ ec[e].pc = "claim"
  /\ owner[PartitionOf(e)] = None
  /\ owner' = [owner EXCEPT ![PartitionOf(e)] = Some(e)]
  /\ ec' = [ec EXCEPT ![e].pc = "initial", ![e].claimed = TRUE]
  /\ UNCHANGED << logEnd, kafkaCommitted, mux, crashed, reqVars, groupVars >>
  /\ UNCHANGED << aVars, env >>

\* registry.claimPartition returns because stoppingCh was closed.
EcClaimCancelled(e) ==
  /\ ~crashed
  /\ ec[e].pc = "claim"
  /\ ec[e].stopping
  /\ ec' = [ec EXCEPT ![e].pc = "initial"]
  /\ UNCHANGED << owner, logEnd, kafkaCommitted, mux, crashed, reqVars, groupVars >>
  /\ UNCHANGED << aVars, env >>

\* Lines 613-633 with ConsumePartition that starts at the oldest message
\* whatever the initial offset.
EcInitialOffsetFromOldest(e) ==
  /\ ~crashed
  /\ ec[e].pc = "initial"
  /\ LET p == PartitionOf(e)
         initialOffset == kafkaCommitted[p]
         r == [ec[e] EXCEPT !.pc = "fetch", !.initialized = TRUE, !.cursor = 0]
     IN  ec' = [ec EXCEPT ![e] =
                  IF initialOffset = OffsetNewest
                  THEN SubmitOffset(r, logEnd[p]) ELSE r]
  /\ UNCHANGED << owner, logEnd, kafkaCommitted, mux, crashed, reqVars, groupVars >>
  /\ UNCHANGED << aVars, env >>

\* Lines 613-633 with the initial offset ready: ConsumePartition from it, and
\* the first submission when the group has no stored offset.
EcInitialOffset(e) ==
  /\ ~crashed
  /\ ec[e].pc = "initial"
  /\ LET p == PartitionOf(e)
         initialOffset == kafkaCommitted[p]
         concreteOffset == IF initialOffset = OffsetNewest THEN logEnd[p]
                           ELSE initialOffset
         r == [ec[e] EXCEPT !.pc = "fetch", !.initialized = TRUE,
                            !.cursor = concreteOffset]
     IN  ec' = [ec EXCEPT ![e] =
                  IF initialOffset = OffsetNewest
                  THEN SubmitOffset(r, concreteOffset) ELSE r]
  /\ UNCHANGED << owner, logEnd, kafkaCommitted, mux, crashed, reqVars, groupVars >>
  /\ UNCHANGED << aVars, env >>

\* Line 615: stopped while waiting for the initial offset.
EcInitialStopped(e) ==
  /\ ~crashed
  /\ ec[e].pc = "initial"
  /\ ec[e].stopping
  /\ EcReturn(e, ec[e])
  /\ UNCHANGED << logEnd, kafkaCommitted, mux, crashed, reqVars, groupVars >>
  /\ UNCHANGED << aVars, env >>

\* Line 642 with a partition consumer that hands out the same message again.
EcFetchSameMessage(e) ==
  /\ ~crashed
  /\ ec[e].pc = "fetch"
  /\ ec[e].cursor < logEnd[PartitionOf(e)]
  /\ ec' = [ec EXCEPT ![e].pc = "offer", ![e].msg = Some(ec[e].cursor)]
  /\ UNCHANGED << owner, logEnd, kafkaCommitted, mux, crashed, reqVars, groupVars >>
  /\ UNCHANGED << aVars, env >>

\* Line 642: a message arrives from the partition consumer.
EcFetch(e) ==
  /\ ~crashed
  /\ ec[e].pc = "fetch"
  /\ ec[e].cursor < logEnd[PartitionOf(e)]
  /\ ec' = [ec EXCEPT ![e].pc = "offer", ![e].msg = Some(ec[e].cursor),
                      ![e].cursor = @ + 1]
  /\ UNCHANGED << owner, logEnd, kafkaCommitted, mux, crashed, reqVars, groupVars >>
  /\ UNCHANGED << aVars, env >>

\* Lines 649 and 667: a committed offset arrives while fetching or offering.
EcCommitted(e) ==
  /\ ~crashed
  /\ ec[e].pc \in {"fetch", "offer"}
  /\ ec[e].committedOffsets # None
  /\ ec' = [ec EXCEPT ![e].lastCommittedOffset = ec[e].committedOffsets[1],
                      ![e].observed = ec[e].committedOffsets[1],
                      ![e].committedOffsets = None]
  /\ UNCHANGED << owner, logEnd, kafkaCommitted, mux, crashed, reqVars, groupVars >>
  /\ UNCHANGED << aVars, env >>

\* Lines 652 and 670 with a return in place of the goto done.
EcStoppedNoDrain(e) ==
  /\ ~crashed
  /\ ec[e].pc \in {"fetch", "offer"}
  /\ ec[e].stopping
  /\ EcReturn(e, ec[e])
  /\ UNCHANGED << logEnd, kafkaCommitted, mux, crashed, reqVars, groupVars >>
  /\ UNCHANGED << aVars, env >>

\* Lines 652 and 670, then 676: stopped while fetching or offering; return at
\* once when the last submitted offset is the last committed one.
EcStopped(e) ==
  /\ ~crashed
  /\ ec[e].pc \in {"fetch", "offer"}
  /\ ec[e].stopping
  /\ IF ec[e].lastCommittedOffset = ec[e].lastSubmittedOffset
     THEN EcReturn(e, ec[e])
     ELSE /\ ec' = [ec EXCEPT ![e].pc = "drain"]
          /\ UNCHANGED owner
  /\ UNCHANGED << logEnd, kafkaCommitted, mux, crashed, reqVars, groupVars >>
  /\ UNCHANGED << aVars, env >>

\* Lines 684-690: wait for the last submitted offset to be committed.
EcDrain(e) ==
  /\ ~crashed
  /\ ec[e].pc = "drain"
  /\ ec[e].committedOffsets # None
  /\ LET r == [ec[e] EXCEPT !.observed = ec[e].committedOffsets[1],
                            !.committedOffsets = None]
     IN  IF ec[e].committedOffsets[1] = ec[e].lastSubmittedOffset
         THEN EcReturn(e, r)
         ELSE /\ ec' = [ec EXCEPT ![e] = r]
              /\ UNCHANGED owner
  /\ UNCHANGED << logEnd, kafkaCommitted, mux, crashed, reqVars, groupVars >>
  /\ UNCHANGED << aVars, env >>

\* The offset manager commits the latest submitted offset to Kafka and
\* reports it on CommittedOffsets().
PomCommit(e) ==
  /\ ~crashed
  /\ ec[e].pc \in {"fetch", "offer", "drain"}
  /\ ec[e].dirty
  /\ ec[e].committedOffsets = None
  /\ kafkaCommitted' = [kafkaCommitted EXCEPT ![PartitionOf(e)] =
                          ec[e].lastSubmittedOffset]
  /\ ec' = [ec EXCEPT ![e].dirty = FALSE,
                      ![e].committedOffsets = Some(ec[e].lastSubmittedOffset)]
  /\ UNCHANGED << owner, logEnd, mux, crashed, reqVars, groupVars >>
  /\ UNCHANGED << aVars, env >>

\* A producer appends a message to a partition.
Produce(p) ==
  /\ p \in env.produce
  /\ logEnd[p] < env.messages
  /\ logEnd' = [logEnd EXCEPT ![p] = @ + 1]
  /\ UNCHANGED << ec, owner, kafkaCommitted, mux, crashed, reqVars, groupVars >>
  /\ UNCHANGED << aVars, env >>

\* An exclusive consumer of another member of the group claims a free
\* partition, starts fetching, and releases the partition.
OtherClaim(p) ==
  /\ p \in Range(env.partitions)
  /\ env.otherClaims > 0
  /\ owner[p] = None
  /\ owner' = [owner EXCEPT ![p] = Some(OtherMember)]
  /\ env' = [env EXCEPT !.otherClaims = @ - 1]
  /\ UNCHANGED << ec, logEnd, kafkaCommitted, mux, crashed, reqVars, groupVars >>
  /\ UNCHANGED aVars

OtherFetches(p) ==
  /\ owner[p] = Some(OtherMember)
  /\ owner' = [owner EXCEPT ![p] = Some(OtherFetching)]
  /\ UNCHANGED << ec, logEnd, kafkaCommitted, mux, crashed, reqVars, groupVars >>
  /\ UNCHANGED << aVars, env >>

OtherRelease(p) ==
  /\ owner[p] = Some(OtherFetching)
  /\ owner' = [owner EXCEPT ![p] = None]
  /\ UNCHANGED << ec, logEnd, kafkaCommitted, mux, crashed, reqVars, groupVars >>
  /\ UNCHANGED << aVars, env >>

(***************************************************************************)
(* Part 3.  The multiplexer, the topic consumer (consumer.go:509-549), the *)
(* dispatcher tier above it and the Consume calls (consumer.go:108-113).   *)
(***************************************************************************)

\* The number of Consume calls made.
MaxRequests == 2

\* Config.Consumer.ChannelBufferSize.
ChannelBufferSize == 1

Reqs == 1..MaxRequests

TimeoutResult == << "timeout", 0, 0 >>

OverflowResult == << "overflow", 0, 0 >>

MsgResult(p, offset) == << "msg", p, offset >>

\* A Consume call: where it is, its age, its replies, and the group's offsets
\* stored in Kafka when the call was made.
ReqFresh == [st |-> "idle", expired |-> FALSE, expiredAtDequeue |-> FALSE,
             replies |-> << >>, committed |-> [p \in Partitions |-> OffsetNewest]]

\* afterClose records, while a request is served, that it was taken from the
\* requests channel after the channel was closed.
TcFresh == [gen |-> 0, pc |-> "none", closed |-> FALSE, cur |-> None,
            requestsCh |-> << >>, afterClose |-> FALSE]

ReqInit ==
  /\ req = [r \in Reqs |-> ReqFresh]
  /\ gcReqCh = << >>
  /\ disp = [pc |-> "none", child |-> "none"]
  /\ tc = TcFresh

\* consumeReq.replyCh <- result: the call is answered. The offsets noted at
\* the call are kept for a call that returns a message.
Reply(rq, r, result) ==
  [rq EXCEPT ![r].st = "done", ![r].replies = Append(@, result),
             ![r].committed = IF result[1] = "msg" THEN @ ELSE ReqFresh.committed]

\* The multiplexer takes the message an exclusive consumer offers (line 661).
MuxReceive(m, e) ==
  /\ ~crashed
  /\ mux[m].pc = "select"
  /\ e \in mux[m].ins
  /\ ec[e].pc = "offer"
  /\ mux' = [mux EXCEPT ![m].pc = "forward", ![m].src = Some(e)]
  /\ UNCHANGED << ecVars, crashed, reqVars, groupVars >>
  /\ UNCHANGED << aVars, env >>

\* Lines 663-666 with msg.Offset submitted in place of msg.Offset + 1.
EcAckSubmitsMessageOffset(m) ==
  /\ ~crashed
  /\ mux[m].pc = "ack"
  /\ LET e == mux[m].src[1]
     IN  /\ ec[e].pc = "offer"
         /\ ec' = [ec EXCEPT ![e] =
                     [SubmitOffset(ec[e], ec[e].msg[1])
                        EXCEPT !.pc = "fetch", !.msg = None]]
  /\ mux' = [mux EXCEPT ![m].pc = "select", ![m].src = None]
  /\ UNCHANGED << owner, logEnd, kafkaCommitted, crashed, reqVars, groupVars >>
  /\ UNCHANGED << aVars, env >>

\* The multiplexer acknowledges the message it forwarded, and the exclusive
\* consumer submits the next offset (lines 663-666).
EcAck(m) ==
  /\ ~crashed
  /\ mux[m].pc = "ack"
  /\ LET e == mux[m].src[1]
     IN  /\ ec[e].pc = "offer"
         /\ ec' = [ec EXCEPT ![e] =
                     [SubmitOffset(ec[e], ec[e].msg[1] + 1)
                        EXCEPT !.pc = "fetch", !.msg = None]]
  /\ mux' = [mux EXCEPT ![m].pc = "select", ![m].src = None]
  /\ UNCHANGED << owner, logEnd, kafkaCommitted, crashed, reqVars, groupVars >>
  /\ UNCHANGED << aVars, env >>

\* The multiplexer's goroutine ends after stop() when it is not about to
\* send an ack.
MuxExit(m) ==
  /\ ~crashed
  /\ mux[m].pc \in {"select", "forward"}
  /\ mux[m].stopping
  /\ mux' = [mux EXCEPT ![m].pc = "exited", ![m].src = None]
  /\ UNCHANGED << ecVars, crashed, reqVars, groupVars >>
  /\ UNCHANGED << aVars, env >>

\* T.Consume: the root dispatcher hands the request to the group consumer,
\* which it creates on the first request, or answers that its buffer is full.
Consume(r) ==
  /\ ~crashed
  /\ stopPc = "idle"
  /\ r <= env.requests
  /\ req[r].st = "idle"
  /\ \A q \in Reqs : q < r => req[q].st # "idle"
  /\ IF Len(gcReqCh) < ChannelBufferSize
     THEN /\ gcReqCh' = Append(gcReqCh, r)
          /\ req' = [req EXCEPT ![r].st = "gcq", ![r].committed = kafkaCommitted]
     ELSE /\ req' = Reply(req, r, OverflowResult)
          /\ UNCHANGED gcReqCh
  /\ IF gcPc = "none"
     THEN /\ gcPc' = "run"
          /\ disp' = [disp EXCEPT !.pc = "run"]
          /\ mp' = [mp EXCEPT !.pc = "loop"]
     ELSE UNCHANGED << gcPc, disp, mp >>
  /\ UNCHANGED << ecVars, mux, crashed, tc, rebalanceResultCh, rb, rbRunning,
                  rw, tg, reg, stopPc >>
  /\ UNCHANGED << aVars, env >>

\* Time passes: a request waiting in a queue reaches LongPollingTimeout.
RequestAges(r) ==
  /\ req[r].st \in {"gcq", "tcq"}
  /\ ~req[r].expired
  /\ req' = [req EXCEPT ![r].expired = TRUE]
  /\ UNCHANGED << ecVars, mux, crashed, gcReqCh, disp, tc, groupVars >>
  /\ UNCHANGED << aVars, env >>

\* The group consumer's dispatcher takes a request, starts the topic consumer
\* if there is none, and offers the request to it without blocking.
GcDispatch ==
  /\ ~crashed
  /\ disp.pc \in {"run", "closing"}
  /\ gcReqCh # << >>
  /\ disp.child # "stopping"
  /\ LET r == Head(gcReqCh)
         child == IF disp.child = "none"
                  THEN [TcFresh EXCEPT !.gen = tc.gen + 1, !.pc = "add"]
                  ELSE tc
     IN  /\ gcReqCh' = Tail(gcReqCh)
         /\ disp' = [disp EXCEPT !.child = "live"]
         /\ IF Len(child.requestsCh) < ChannelBufferSize
            THEN /\ tc' = [child EXCEPT !.requestsCh = Append(@, r)]
                 /\ req' = [req EXCEPT ![r].st = "tcq"]
            ELSE /\ tc' = child
                 /\ req' = Reply(req, r, OverflowResult)
  /\ UNCHANGED << ecVars, mux, crashed, groupVars >>
  /\ UNCHANGED << aVars, env >>

\* The dispatcher disposes of a topic consumer that has been idle: tc.stop()
\* closes its requests channel.
DispExpire ==
  /\ ~crashed
  /\ env.dispose
  /\ disp.pc = "run"
  /\ disp.child = "live"
  /\ disp' = [disp EXCEPT !.child = "stopping"]
  /\ tc' = [tc EXCEPT !.closed = TRUE]
  /\ UNCHANGED << ecVars, mux, crashed, req, gcReqCh, groupVars >>
  /\ UNCHANGED << aVars, env >>

\* The dispatcher receives the stopped topic consumer on stoppedCh (line 511).
DispChildStopped ==
  /\ ~crashed
  /\ disp.child = "stopping"
  /\ tc.pc = "stopped"
  /\ disp' = [disp EXCEPT !.child = "none"]
  /\ UNCHANGED << ecVars, mux, crashed, req, gcReqCh, tc, groupVars >>
  /\ UNCHANGED << aVars, env >>

\* dispatcher.stop(): with its requests all handed on, the dispatcher stops
\* its child and waits for it.
DispStopChildren ==
  /\ ~crashed
  /\ disp.pc = "closing"
  /\ gcReqCh = << >>
  /\ disp.child # "stopping"
  /\ IF disp.child = "live"
     THEN /\ disp' = [pc |-> "stopChildren", child |-> "stopping"]
          /\ tc' = [tc EXCEPT !.closed = TRUE]
     ELSE /\ disp' = [disp EXCEPT !.pc = "stopChildren"]
          /\ UNCHANGED tc
  /\ UNCHANGED << ecVars, mux, crashed, req, gcReqCh, groupVars >>
  /\ UNCHANGED << aVars, env >>

DispStopped ==
  /\ ~crashed
  /\ disp.pc = "stopChildren"
  /\ disp.child = "none"
  /\ disp' = [disp EXCEPT !.pc = "stopped"]
  /\ UNCHANGED << ecVars, mux, crashed, req, gcReqCh, tc, groupVars >>
  /\ UNCHANGED << aVars, env >>

\* Line 530 with the loop left as soon as the requests channel is closed:
\* the requests still in its buffer stay there.
TcRangeEndOnClose ==
  /\ ~crashed
  /\ tc.pc = "idle"
  /\ tc.closed
  /\ tc' = [tc EXCEPT !.pc = "delete"]
  /\ UNCHANGED << ecVars, mux, crashed, req, gcReqCh, disp, groupVars >>
  /\ UNCHANGED << aVars, env >>

\* Lines 530-540 with the reply to an expired request left out.
TcDequeueDropsExpired ==
  /\ ~crashed
  /\ tc.pc = "idle"
  /\ tc.requestsCh # << >>
  /\ LET r == Head(tc.requestsCh)
     IN  IF req[r].expired
         THEN /\ tc' = [tc EXCEPT !.requestsCh = Tail(@)]
              /\ req' = [req EXCEPT ![r].st = "dropped", ![r].expiredAtDequeue = TRUE]
         ELSE /\ tc' = [tc EXCEPT !.requestsCh = Tail(@), !.pc = "serve",
                                  !.cur = Some(r), !.afterClose = tc.closed]
              /\ req' = [req EXCEPT ![r].st = "cur"]
  /\ UNCHANGED << ecVars, mux, crashed, gcReqCh, disp, groupVars >>
  /\ UNCHANGED << aVars, env >>

\* Lines 530-540 without the ttl check: every request goes on to the select.
TcDequeueNoTtlCheck ==
  /\ ~crashed
  /\ tc.pc = "idle"
  /\ tc.requestsCh # << >>
  /\ LET r == Head(tc.requestsCh)
     IN  /\ tc' = [tc EXCEPT !.requestsCh = Tail(@), !.pc = "serve", !.cur = Some(r)]
         /\ req' = [req EXCEPT ![r].st = "cur", ![r].expiredAtDequeue = req[r].expired]
  /\ UNCHANGED << ecVars, mux, crashed, gcReqCh, disp, groupVars >>
  /\ UNCHANGED << aVars, env >>

\* Lines 530-540: the topic consumer takes the next request; one whose ttl
\* is not positive is answered with the timeout at once.
TcDequeue ==
  /\ ~crashed
  /\ tc.pc = "idle"
  /\ tc.requestsCh # << >>
  /\ LET r == Head(tc.requestsCh)
     IN  IF req[r].expired
         THEN /\ tc' = [tc EXCEPT !.requestsCh = Tail(@)]
              /\ req' = [Reply(req, r, TimeoutResult) EXCEPT ![r].expiredAtDequeue = TRUE]
         ELSE /\ tc' = [tc EXCEPT !.requestsCh = Tail(@), !.pc = "serve",
                                  !.cur = Some(r), !.afterClose = tc.closed]
              /\ req' = [req EXCEPT ![r].st = "cur"]
  /\ UNCHANGED << ecVars, mux, crashed, gcReqCh, disp, groupVars >>
  /\ UNCHANGED << aVars, env >>

\* Lines 543-544: a message arrives from the multiplexer and answers the
\* request; the multiplexer goes on to acknowledge it.
TcReceive(m) ==
  /\ ~crashed
  /\ tc.pc = "serve"
  /\ mux[m].pc = "forward"
  /\ mux[m].out = tc.gen
  /\ LET e == mux[m].src[1]
     IN  req' = Reply(req, tc.cur[1], MsgResult(PartitionOf(e), ec[e].msg[1]))
  /\ tc' = [tc EXCEPT !.pc = "idle", !.cur = None, !.afterClose = FALSE]
  /\ mux' = [mux EXCEPT ![m].pc = "ack"]
  /\ UNCHANGED << ecVars, crashed, gcReqCh, disp, groupVars >>
  /\ UNCHANGED << aVars, env >>

\* Lines 545-546: the ttl elapses.
TcTimeout ==
  /\ ~crashed
  /\ tc.pc = "serve"
  /\ req' = Reply(req, tc.cur[1], TimeoutResult)
  /\ tc' = [tc EXCEPT !.pc = "idle", !.cur = None, !.afterClose = FALSE]
  /\ UNCHANGED << ecVars, mux, crashed, gcReqCh, disp, groupVars >>
  /\ UNCHANGED << aVars, env >>

\* Line 530: the requests channel is closed and empty; run goes on to its
\* deferred send on deleteTopicConsumer.
TcRangeEnd ==
  /\ ~crashed
  /\ tc.pc = "idle"
  /\ tc.requestsCh = << >>
  /\ tc.closed
  /\ tc' = [tc EXCEPT !.pc = "delete"]
  /\ UNCHANGED << ecVars, mux, crashed, req, gcReqCh, disp, groupVars >>
  /\ UNCHANGED << aVars, env >>

(***************************************************************************)
(* Part 4.  The group consumer: managePartitions, rebalance,               *)
(* rewireMultiplexer, resolvePartitions and the shutdown of start          *)
(* (consumer.go:191-410).                                                  *)
(***************************************************************************)

\* cfg.ClientID of this process and the IDs of the other members of the group.
SelfID == << 2 >>

\* The ID of a member of the group that sorts before this process.
EarlierID == << 1 >>

RwIds == {"rb", "sd"}

\* A call of rewireMultiplexer: where it is, its argument, the partitions its
\* first loop has visited, the exclusive consumers it waits for, the
\* partitions its second loop has yet to visit, the multiplexer it stops, and
\* the inputs it has collected for the multiplexer it spawns.
RwIdle == [pc |-> "idle", assigned |-> {}, visited |-> {}, waiting |-> {},
           todo |-> {}, m |-> 0, cur |-> None, muxIns |-> {}]

TgFresh == [inMap |-> FALSE, topicConsumer |-> 0, multiplexer |-> 0,
            exclusiveConsumers |-> [p \in Partitions |-> None]]

\* listTopics (lines 247, 252): the keys of topicConsumers, which holds the
\* one topic's consumer or nothing.
listTopics(topicConsumers) == IF topicConsumers = 0 THEN {} ELSE {"topic"}

GroupInit ==
  /\ mp = [pc |-> "none", topicConsumers |-> 0, topics |-> {}, publish |-> FALSE,
           subs |-> [self |-> FALSE, others |-> {}],
           shouldRebalance |-> FALSE, canRebalance |-> TRUE, retry |-> FALSE]
  /\ rebalanceResultCh = << >>
  /\ rb = [pc |-> "idle", subs |-> [self |-> FALSE, others |-> {}], tcSnap |-> 0]
  /\ rbRunning = 0
  /\ rw = [k \in RwIds |-> RwIdle]
  /\ tg = TgFresh
  /\ reg = [subscribed |-> FALSE, closed |-> FALSE]
  /\ gcPc = "none"
  /\ stopPc = "idle"

\* Lines 276-285 with canRebalance ignored.
MaybeRebalanceUnserialized(m) ==
  IF m.shouldRebalance
  THEN /\ mp' = [m EXCEPT !.shouldRebalance = FALSE, !.canRebalance = FALSE]
       /\ rb' = [pc |-> "resolve", subs |-> m.subs, tcSnap |-> m.topicConsumers]
       /\ rbRunning' = rbRunning + 1
  ELSE /\ mp' = m
       /\ UNCHANGED << rb, rbRunning >>

\* Lines 276-285: start a rebalance with a copy of topicConsumers when one is
\* wanted and none is running.
MaybeRebalance(m) ==
  IF m.shouldRebalance /\ m.canRebalance
  THEN /\ mp' = [m EXCEPT !.shouldRebalance = FALSE, !.canRebalance = FALSE]
       /\ rb' = [pc |-> "resolve", subs |-> m.subs, tcSnap |-> m.topicConsumers]
       /\ rbRunning' = rbRunning + 1
  ELSE /\ mp' = m
       /\ UNCHANGED << rb, rbRunning >>

\* Lines 246-250 and 521-523: the topic consumer registers itself.
MpAddTopicConsumer ==
  /\ ~crashed
  /\ mp.pc = "loop"
  /\ tc.pc = "add"
  /\ mp' = [mp EXCEPT !.topicConsumers = tc.gen, !.topics = listTopics(tc.gen),
                       !.publish = TRUE]
  /\ tc' = [tc EXCEPT !.pc = "idle"]
  /\ UNCHANGED << ecVars, mux, crashed, req, gcReqCh, disp, rebalanceResultCh,
                  rb, rbRunning, rw, tg, reg, gcPc, stopPc >>
  /\ UNCHANGED << aVars, env >>

\* Lines 251-255 without line 253, and 524-526: the topic list is not
\* recomputed.
MpDeleteTopicConsumerStaleTopics ==
  /\ ~crashed
  /\ mp.pc = "loop"
  /\ tc.pc = "delete"
  /\ mp' = [mp EXCEPT !.topicConsumers = 0, !.publish = TRUE]
  /\ tc' = [tc EXCEPT !.pc = "stopped"]
  /\ UNCHANGED << ecVars, mux, crashed, req, gcReqCh, disp, rebalanceResultCh,
                  rb, rbRunning, rw, tg, reg, gcPc, stopPc >>
  /\ UNCHANGED << aVars, env >>

\* Lines 251-255 and 524-526: the topic consumer deregisters itself and
\* signals that it stopped.
MpDeleteTopicConsumer ==
  /\ ~crashed
  /\ mp.pc = "loop"
  /\ tc.pc = "delete"
  /\ mp' = [mp EXCEPT !.topicConsumers = 0, !.topics = listTopics(0),
                       !.publish = TRUE]
  /\ tc' = [tc EXCEPT !.pc = "stopped"]
  /\ UNCHANGED << ecVars, mux, crashed, req, gcReqCh, disp, rebalanceResultCh,
                  rb, rbRunning, rw, tg, reg, gcPc, stopPc >>
  /\ UNCHANGED << aVars, env >>

\* Lines 256-258: the registry takes the topic list.
MpPublishTopics ==
  /\ ~crashed
  /\ mp.pc = "loop"
  /\ mp.publish
  /\ ~reg.closed
  /\ reg' = [reg EXCEPT !.subscribed = ("topic" \in mp.topics)]
  /\ mp' = [mp EXCEPT !.publish = FALSE]
  /\ UNCHANGED << ecVars, mux, crashed, reqVars, rebalanceResultCh, rb,
                  rbRunning, rw, tg, gcPc, stopPc >>
  /\ UNCHANGED << aVars, env >>

\* Lines 259-264 without line 263, 276-285: the snapshot is stored and no
\* rebalance is asked for.
MpMembershipChangeStoredOnly(others) ==
  /\ ~crashed
  /\ mp.pc = "loop"
  /\ ~reg.closed
  /\ env.membership > 0
  /\ env' = [env EXCEPT !.membership = @ - 1]
  /\ MaybeRebalance([mp EXCEPT !.subs = [self |-> reg.subscribed, others |-> others],
                               !.retry = FALSE])
  /\ UNCHANGED << ecVars, mux, crashed, reqVars, rebalanceResultCh, rw, tg, reg,
                  gcPc, stopPc >>
  /\ UNCHANGED aVars

\* Lines 259-264, 276-285: the registry reports the group's subscriptions.
MpMembershipChange(others) ==
  /\ ~crashed
  /\ mp.pc = "loop"
  /\ ~reg.closed
  /\ env.membership > 0
  /\ env' = [env EXCEPT !.membership = @ - 1]
  /\ MaybeRebalance([mp EXCEPT !.subs = [self |-> reg.subscribed, others |-> others],
                               !.retry = FALSE, !.shouldRebalance = TRUE])
  /\ UNCHANGED << ecVars, mux, crashed, reqVars, rebalanceResultCh, rw, tg, reg,
                  gcPc, stopPc >>
  /\ UNCHANGED aVars

\* Lines 265-271 without line 269: the error is logged and nothing else.
MpRebalanceResultDropsError ==
  /\ ~crashed
  /\ mp.pc = "loop"
  /\ rebalanceResultCh # << >>
  /\ rebalanceResultCh' = Tail(rebalanceResultCh)
  /\ IF Head(rebalanceResultCh) = "err"
     THEN /\ mp' = [mp EXCEPT !.canRebalance = TRUE]
          /\ UNCHANGED << rb, rbRunning >>
     ELSE MaybeRebalance([mp EXCEPT !.canRebalance = TRUE])
  /\ UNCHANGED << ecVars, mux, crashed, reqVars, rw, tg, reg, gcPc, stopPc >>
  /\ UNCHANGED << aVars, env >>

\* Lines 265-271, 276-285: a rebalance reports its result.
MpRebalanceResult ==
  /\ ~crashed
  /\ mp.pc = "loop"
  /\ rebalanceResultCh # << >>
  /\ rebalanceResultCh' = Tail(rebalanceResultCh)
  /\ IF Head(rebalanceResultCh) = "err"
     THEN /\ mp' = [mp EXCEPT !.canRebalance = TRUE, !.retry = TRUE]
          /\ UNCHANGED << rb, rbRunning >>
     ELSE MaybeRebalance([mp EXCEPT !.canRebalance = TRUE])
  /\ UNCHANGED << ecVars, mux, crashed, reqVars, rw, tg, reg, gcPc, stopPc >>
  /\ UNCHANGED << aVars, env >>

\* Lines 272-273, 276-285: the retry timer fires.
MpRetry ==
  /\ ~crashed
  /\ mp.pc = "loop"
  /\ mp.retry
  /\ MaybeRebalance([mp EXCEPT !.retry = FALSE, !.shouldRebalance = TRUE])
  /\ UNCHANGED << ecVars, mux, crashed, reqVars, rebalanceResultCh, rw, tg, reg,
                  gcPc, stopPc >>
  /\ UNCHANGED << aVars, env >>

\* rewireMultiplexer is called with the assigned partitions.
RwStart(assigned) == [RwIdle EXCEPT !.pc = "stop", !.assigned = assigned]

\* Lines 260-262, 287-292: the membership stream is closed; rewire every
\* gear to no partitions.
MpMembershipClosed ==
  /\ ~crashed
  /\ mp.pc = "loop"
  /\ reg.closed
  /\ mp' = [mp EXCEPT !.pc = "wait"]
  /\ rw' = IF tg.inMap THEN [rw EXCEPT !["sd"] = RwStart({})] ELSE rw
  /\ UNCHANGED << ecVars, mux, crashed, reqVars, rebalanceResultCh, rb,
                  rbRunning, tg, reg, gcPc, stopPc >>
  /\ UNCHANGED << aVars, env >>

\* Line 293: the rewires of the shutdown are done.
MpExit ==
  /\ ~crashed
  /\ mp.pc = "wait"
  /\ rw["sd"].pc \in {"idle", "done"}
  /\ mp' = [mp EXCEPT !.pc = "exited"]
  /\ UNCHANGED << ecVars, mux, crashed, reqVars, rebalanceResultCh, rb,
                  rbRunning, rw, tg, reg, gcPc, stopPc >>
  /\ UNCHANGED << aVars, env >>

\* resolvePartitions for the topic: None when this member is not subscribed,
\* else the partitions assigned to it, the subscribers taken in order `subs`.
resolvePartitions(snapshot, subs) ==
  IF ~snapshot.self THEN None
  ELSE Some(Assigned(assignPartitionsToSubscribers(env.partitions, subs), SelfID))

\* Lines 302-306: the partition list cannot be fetched.
RbResolveFails ==
  /\ ~crashed
  /\ rb.pc = "resolve"
  /\ rb.subs.self
  /\ env.failed < env.failures
  /\ env' = [env EXCEPT !.failed = @ + 1]
  /\ Len(rebalanceResultCh) < 1
  /\ rebalanceResultCh' = Append(rebalanceResultCh, "err")
  /\ rb' = [rb EXCEPT !.pc = "idle"]
  /\ rbRunning' = rbRunning - 1
  /\ UNCHANGED << ecVars, mux, crashed, reqVars, mp, rw, tg, reg, gcPc, stopPc >>
  /\ UNCHANGED aVars

\* Lines 302-331: the assignment is resolved; the gear of the topic is
\* rewired, or made and rewired when the topic is newly assigned.
RbResolve ==
  /\ ~crashed
  /\ rb.pc = "resolve"
  /\ \E subs \in Perms(SetToSeq({SelfID} \cup rb.subs.others)) :
       LET assigned == resolvePartitions(rb.subs, subs)
       IN  IF tg.inMap
           THEN /\ rw' = [rw EXCEPT !["rb"] =
                            RwStart(IF assigned = None THEN {} ELSE assigned[1])]
                /\ UNCHANGED tg
           ELSE IF assigned # None /\ rb.tcSnap # 0
           THEN /\ rw' = [rw EXCEPT !["rb"] = RwStart(assigned[1])]
                /\ tg' = [TgFresh EXCEPT !.inMap = TRUE, !.topicConsumer = rb.tcSnap]
           ELSE UNCHANGED << rw, tg >>
  /\ rb' = [rb EXCEPT !.pc = "wait"]
  /\ UNCHANGED << ecVars, mux, crashed, reqVars, mp, rebalanceResultCh,
                  rbRunning, reg, gcPc, stopPc >>
  /\ UNCHANGED << aVars, env >>

\* Lines 332-341: the rewires are done; drop a gear without multiplexer and
\* report success.
RbFinish ==
  /\ ~crashed
  /\ rb.pc = "wait"
  /\ rw["rb"].pc \in {"idle", "done"}
  /\ Len(rebalanceResultCh) < 1
  /\ tg' = IF tg.inMap /\ tg.multiplexer = 0 THEN [tg EXCEPT !.inMap = FALSE] ELSE tg
  /\ rw' = [rw EXCEPT !["rb"] = RwIdle]
  /\ rebalanceResultCh' = Append(rebalanceResultCh, "ok")
  /\ rb' = [rb EXCEPT !.pc = "idle"]
  /\ rbRunning' = rbRunning - 1
  /\ UNCHANGED << ecVars, mux, crashed, reqVars, mp, reg, gcPc, stopPc >>
  /\ UNCHANGED << aVars, env >>

\* The free object slots: the lowest whose goroutine has not started or has ended.
FreeEc(p) ==
  LET free == {k \in EcSlots : ec[<< p, k >>].pc \in {"none", "done"}}
  IN  << p, CHOOSE k \in free : \A j \in free : k <= j >>

FreeMux ==
  LET free == {m \in MuxIds : mux[m].pc \in {"none", "exited"}}
  IN  CHOOSE m \in free : \A j \in free : m <= j

\* tg.multiplexer.stop() is called: its stopping channel is closed, which
\* panics when it is closed already, and the caller waits for the goroutine.
MuxStopCall(r, k, waitPc, cur) ==
  LET m == tg.multiplexer
  IN  IF mux[m].stopping
      THEN /\ crashed' = TRUE
           /\ UNCHANGED << mux, rw >>
      ELSE /\ mux' = [mux EXCEPT ![m].stopping = TRUE]
           /\ rw' = [r EXCEPT ![k].pc = waitPc, ![k].m = m, ![k].cur = cur]
           /\ UNCHANGED crashed

\* Lines 356-357 for partition p: ec.stop() closes the stopping channel of
\* the exclusive consumer, which panics when it is closed already, and the
\* partition is deleted from the gear.
EcStopCall(r, k, p, e, gear) ==
  IF ec[e].stopping
  THEN /\ crashed' = TRUE
       /\ UNCHANGED << ec, rw >>
       /\ tg' = gear
  ELSE /\ ec' = [ec EXCEPT ![e].stopping = TRUE]
       /\ tg' = [gear EXCEPT !.exclusiveConsumers[p] = None]
       /\ rw' = [r EXCEPT ![k].pc = "stop", ![k].waiting = @ \cup {e},
                          ![k].cur = None]
       /\ UNCHANGED crashed

\* Lines 350-359 without lines 352-355: the exclusive consumer is stopped
\* with the multiplexer left running.
RwStopStepKeepsMultiplexer(k) ==
  /\ ~crashed
  /\ rw[k].pc = "stop"
  /\ LET cands == {p \in Partitions : /\ tg.exclusiveConsumers[p] # None
                                      /\ p \notin rw[k].visited}
     IN  IF cands = {}
         THEN /\ rw' = [rw EXCEPT ![k].pc = "join"]
              /\ UNCHANGED << ec, mux, crashed, tg >>
         ELSE \E p \in cands :
                LET e == tg.exclusiveConsumers[p][1]
                    r == [rw EXCEPT ![k].visited = @ \cup {p}]
                IN  IF p \in rw[k].assigned
                    THEN /\ rw' = r
                         /\ UNCHANGED << ec, mux, crashed, tg >>
                    ELSE /\ EcStopCall(r, k, p, e, tg)
                         /\ UNCHANGED mux
  /\ UNCHANGED << owner, logEnd, kafkaCommitted, reqVars, mp, rebalanceResultCh,
                  rb, rbRunning, reg, gcPc, stopPc >>
  /\ UNCHANGED << aVars, env >>

\* Lines 350-359: the loop takes the next partition of the gear; when it is
\* not assigned, stop the multiplexer if there is one, else stop the
\* exclusive consumer.
RwStopStep(k) ==
  /\ ~crashed
  /\ rw[k].pc = "stop"
  /\ LET cands == {p \in Partitions : /\ tg.exclusiveConsumers[p] # None
                                      /\ p \notin rw[k].visited}
     IN  IF cands = {}
         THEN /\ rw' = [rw EXCEPT ![k].pc = "join"]
              /\ UNCHANGED << ec, mux, crashed, tg >>
         ELSE \E p \in cands :
                LET e == tg.exclusiveConsumers[p][1]
                    r == [rw EXCEPT ![k].visited = @ \cup {p}]
                IN  IF p \in rw[k].assigned
                    THEN /\ rw' = r
                         /\ UNCHANGED << ec, mux, crashed, tg >>
                    ELSE IF tg.multiplexer # 0
                    THEN /\ MuxStopCall(r, k, "stopWait", Some(<< p, e >>))
                         /\ UNCHANGED << ec, tg >>
                    ELSE /\ EcStopCall(r, k, p, e, tg)
                         /\ UNCHANGED mux
  /\ UNCHANGED << owner, logEnd, kafkaCommitted, reqVars, mp, rebalanceResultCh,
                  rb, rbRunning, reg, gcPc, stopPc >>
  /\ UNCHANGED << aVars, env >>

\* Lines 353-357: multiplexer.stop() returned; the exclusive consumer of the
\* partition is stopped.
RwStopWaitDone(k) ==
  /\ ~crashed
  /\ rw[k].pc = "stopWait"
  /\ mux[rw[k].m].pc = "exited"
  /\ EcStopCall(rw, k, rw[k].cur[1][1], rw[k].cur[1][2], [tg EXCEPT !.multiplexer = 0])
  /\ UNCHANGED << owner, logEnd, kafkaCommitted, mux, reqVars, mp,
                  rebalanceResultCh, rb, rbRunning, reg, gcPc, stopPc >>
  /\ UNCHANGED << aVars, env >>

\* Line 360: the exclusive consumers stopped have all returned.
RwJoin(k) ==
  /\ ~crashed
  /\ rw[k].pc = "join"
  /\ \A e \in rw[k].waiting : ec[e].pc = "done"
  /\ rw' = [rw EXCEPT ![k].pc = "spawn", ![k].waiting = {},
                      ![k].todo = rw[k].assigned]
  /\ UNCHANGED << ecVars, mux, crashed, reqVars, mp, rebalanceResultCh, rb,
                  rbRunning, tg, reg, gcPc, stopPc >>
  /\ UNCHANGED << aVars, env >>

\* Lines 367-368: spawn the exclusive consumer of partition p.
EcSpawn(p, gear) ==
  /\ ec' = [ec EXCEPT ![FreeEc(p)] = spawnExclusiveConsumer]
  /\ tg' = [gear EXCEPT !.exclusiveConsumers[p] = Some(FreeEc(p))]

\* Lines 361-370: the loop takes the next assigned partition; when the gear
\* does not have it, stop the multiplexer if there is one, else spawn the
\* exclusive consumer.
RwSpawnStep(k) ==
  /\ ~crashed
  /\ rw[k].pc = "spawn"
  /\ IF rw[k].todo = {}
     THEN /\ rw' = [rw EXCEPT ![k].pc = "mux"]
          /\ UNCHANGED << ec, mux, crashed, tg >>
     ELSE \E p \in rw[k].todo :
            LET r == [rw EXCEPT ![k].todo = @ \ {p}]
            IN  IF tg.exclusiveConsumers[p] # None
                THEN /\ rw' = r
                     /\ UNCHANGED << ec, mux, crashed, tg >>
                ELSE IF tg.multiplexer # 0
                THEN /\ MuxStopCall(r, k, "spawnWait", Some(<< p, << p, 1 >> >>))
                     /\ UNCHANGED << ec, tg >>
                ELSE /\ EcSpawn(p, tg)
                     /\ rw' = r
                     /\ UNCHANGED << mux, crashed >>
  /\ UNCHANGED << owner, logEnd, kafkaCommitted, reqVars, mp, rebalanceResultCh,
                  rb, rbRunning, reg, gcPc, stopPc >>
  /\ UNCHANGED << aVars, env >>

\* Lines 364-368: multiplexer.stop() returned; spawn the exclusive consumer.
RwSpawnWaitDone(k) ==
  /\ ~crashed
  /\ rw[k].pc = "spawnWait"
  /\ mux[rw[k].m].pc = "exited"
  /\ EcSpawn(rw[k].cur[1][1], [tg EXCEPT !.multiplexer = 0])
  /\ rw' = [rw EXCEPT ![k].pc = "spawn", ![k].cur = None]
  /\ UNCHANGED << owner, logEnd, kafkaCommitted, mux, crashed, reqVars, mp,
                  rebalanceResultCh, rb, rbRunning, reg, gcPc, stopPc >>
  /\ UNCHANGED << aVars, env >>

\* Lines 371-375: when the gear has no multiplexer and has exclusive
\* consumers, collect them as the inputs of a new one.
RwMuxStep(k) ==
  /\ ~crashed
  /\ rw[k].pc = "mux"
  /\ LET ins == {tg.exclusiveConsumers[p][1] :
                   p \in {q \in Partitions : tg.exclusiveConsumers[q] # None}}
     IN  IF tg.multiplexer = 0 /\ ins # {}
         THEN rw' = [rw EXCEPT ![k].pc = "muxSpawn", ![k].muxIns = ins]
         ELSE rw' = [rw EXCEPT ![k].pc = "done"]
  /\ UNCHANGED << ecVars, mux, crashed, reqVars, mp, rebalanceResultCh, rb,
                  rbRunning, tg, reg, gcPc, stopPc >>
  /\ UNCHANGED << aVars, env >>

\* Line 376: spawn the multiplexer of the inputs collected and put it into
\* the gear.
RwMuxSpawn(k) ==
  /\ ~crashed
  /\ rw[k].pc = "muxSpawn"
  /\ mux' = [mux EXCEPT ![FreeMux] =
                [pc |-> "select", ins |-> rw[k].muxIns, out |-> tg.topicConsumer,
                 src |-> None, stopping |-> FALSE]]
  /\ tg' = [tg EXCEPT !.multiplexer = FreeMux]
  /\ rw' = [rw EXCEPT ![k].pc = "done", ![k].muxIns = {}]
  /\ UNCHANGED << ecVars, crashed, reqVars, mp, rebalanceResultCh, rb,
                  rbRunning, reg, gcPc, stopPc >>
  /\ UNCHANGED << aVars, env >>

\* T.Stop is called: the root dispatcher stops the group consumer, closing
\* its stoppingCh (lines 93-95, 217-220).
Stop ==
  /\ ~crashed
  /\ env.stop
  /\ stopPc = "idle"
  /\ stopPc' = "called"
  /\ UNCHANGED << ecVars, mux, crashed, reqVars, mp, rebalanceResultCh, rb,
                  rbRunning, rw, tg, reg, gcPc >>
  /\ UNCHANGED << aVars, env >>

\* The coordination service is lost while the group consumer runs: the
\* registry closes its membership stream by itself.
RegistryFails ==
  /\ ~crashed
  /\ env.registryFails
  /\ gcPc = "run"
  /\ ~reg.closed
  /\ reg' = [reg EXCEPT !.closed = TRUE]
  /\ UNCHANGED << ecVars, mux, crashed, reqVars, mp, rebalanceResultCh, rb,
                  rbRunning, rw, tg, gcPc, stopPc >>
  /\ UNCHANGED << aVars, env >>

\* Lines 205-206: start sees the stop signal and stops its dispatcher.
GcStopDispatcher ==
  /\ ~crashed
  /\ gcPc = "run"
  /\ stopPc = "called"
  /\ gcPc' = "dispStop"
  /\ disp' = [disp EXCEPT !.pc = "closing"]
  /\ UNCHANGED << ecVars, mux, crashed, req, gcReqCh, tc, mp, rebalanceResultCh,
                  rb, rbRunning, rw, tg, reg, stopPc >>
  /\ UNCHANGED << aVars, env >>

\* Lines 206-207: the dispatcher has stopped; the registry is stopped, which
\* closes the membership stream.
GcStopRegistry ==
  /\ ~crashed
  /\ gcPc = "dispStop"
  /\ disp.pc = "stopped"
  /\ gcPc' = "manageWait"
  /\ reg' = [reg EXCEPT !.closed = TRUE]
  /\ UNCHANGED << ecVars, mux, crashed, reqVars, mp, rebalanceResultCh, rb,
                  rbRunning, rw, tg, stopPc >>
  /\ UNCHANGED << aVars, env >>

\* Lines 208-210, 193: managePartitions has returned; the group consumer
\* signals that it stopped.
GcDone ==
  /\ ~crashed
  /\ gcPc = "manageWait"
  /\ mp.pc = "exited"
  /\ gcPc' = "done"
  /\ UNCHANGED << ecVars, mux, crashed, reqVars, mp, rebalanceResultCh, rb,
                  rbRunning, rw, tg, reg, stopPc >>
  /\ UNCHANGED << aVars, env >>

\* T.Stop returns.
StopReturns ==
  /\ ~crashed
  /\ stopPc = "called"
  /\ gcPc \in {"none", "done"}
  /\ stopPc' = "returned"
  /\ UNCHANGED << ecVars, mux, crashed, reqVars, mp, rebalanceResultCh, rb,
                  rbRunning, rw, tg, reg, gcPc >>
  /\ UNCHANGED << aVars, env >>

vars == << aVars, ecVars, mux, crashed, reqVars, groupVars, env >>

AssignIdle ==
  /\ aPartitions = << >>
  /\ aSubscribers = << >>
  /\ aResult = EmptyMap
  /\ aPc = "idle"

\* The bound on the membership snapshots the registry delivers.
MaxMembershipChanges == 2

\* What the environment does in a run: the topic's partition list as the
\* broker returns it, the partitions that messages are produced to, the
\* number of messages produced to each, the number of Consume calls, whether
\* the idle timer of the dispatcher fires, whether Stop is called, the number
\* of membership snapshots and the other members they may list, the number
\* of failures to fetch the partition list and how many there have been,
\* the number of claims by other members, and whether the registry's
\* membership stream closes by itself.
NoEnvironment ==
  [partitions |-> << >>, produce |-> {}, messages |-> 0, requests |-> 0,
   dispose |-> FALSE, stop |-> FALSE, membership |-> 0, snapshots |-> {},
   failures |-> 0, failed |-> 0, otherClaims |-> 0, registryFails |-> FALSE]

\* Requests under load: no member snapshot arrives, so no partition is consumed.
LoadScenario ==
  [NoEnvironment EXCEPT !.partitions = << 0 >>, !.requests = MaxRequests,
                        !.dispose = TRUE, !.stop = TRUE]

\* One request served by the one partition assigned after a snapshot.
MessageScenario ==
  [LoadScenario EXCEPT !.requests = 1, !.produce = {0}, !.messages = MaxOffset,
                       !.membership = 1, !.snapshots = {{}}]

\* Two partitions, the first of them taken by a member that sorts before
\* this one while that member is in the group.
TwoPartitionScenario ==
  [NoEnvironment EXCEPT !.partitions = << 1, 0 >>, !.produce = {0},
                        !.messages = MaxOffset,
                        !.requests = 1, !.membership = MaxMembershipChanges,
                        !.snapshots = {{}, {EarlierID}}]

\* The number of messages in the log of the partition whose order is followed.
MaxMessages == 2

\* Two partitions of which this process keeps the second throughout, with
\* messages on it, while the first comes and goes with the other member and
\* the multiplexer is replaced.
OrderScenario ==
  [TwoPartitionScenario EXCEPT !.produce = {1}, !.messages = MaxMessages,
                               !.requests = MaxRequests]

\* Snapshots with and without a member that sorts before this one, which
\* takes the partition away.
RebalanceScenario ==
  [MessageScenario EXCEPT !.membership = MaxMembershipChanges,
                          !.snapshots = {{}, {EarlierID}}]

\* The number of times the partition list cannot be fetched.
MaxFailures == 1

\* The partition list cannot be fetched, with a second snapshot that may
\* arrive before the retry.
FailureScenario ==
  [MessageScenario EXCEPT !.failures = MaxFailures,
                          !.membership = MaxMembershipChanges]

\* The membership stream closes by itself at some point of the run.
RegistryFailureScenario == [MessageScenario EXCEPT !.registryFails = TRUE]

\* The topic consumer is disposed of while the topic's gear runs, and a
\* second call makes the dispatcher spawn a new one; nobody calls Stop.
RespawnScenario ==
  [MessageScenario EXCEPT !.requests = MaxRequests, !.stop = FALSE,
                          !.membership = MaxMembershipChanges]

\* Another member claims the partition once.
OtherMemberScenario == [MessageScenario EXCEPT !.otherClaims = 1]

Init ==
  /\ AssignIdle /\ EcInit /\ ReqInit /\ GroupInit
  /\ env \in {LoadScenario, RebalanceScenario, FailureScenario,
              OtherMemberScenario, TwoPartitionScenario}

\* The steps of the process itself: its goroutines and its timers.
ProcessNext ==
  \/ \E e \in EcIds : EcClaimGranted(e)
  \/ \E e \in EcIds : EcClaimCancelled(e)
  \/ \E e \in EcIds : EcInitialOffset(e)
  \/ \E e \in EcIds : EcInitialStopped(e)
  \/ \E e \in EcIds : EcFetch(e)
  \/ \E e \in EcIds : EcCommitted(e)
  \/ \E e \in EcIds : EcStopped(e)
  \/ \E e \in EcIds : EcDrain(e)
  \/ \E e \in EcIds : PomCommit(e)
  \/ \E m \in MuxIds, e \in EcIds : MuxReceive(m, e)
  \/ \E m \in MuxIds : EcAck(m)
  \/ \E m \in MuxIds : MuxExit(m)
  \/ \E m \in MuxIds : TcReceive(m)
  \/ GcDispatch
  \/ DispChildStopped
  \/ DispStopChildren
  \/ DispStopped
  \/ TcDequeue
  \/ TcTimeout
  \/ TcRangeEnd
  \/ MpAddTopicConsumer
  \/ MpDeleteTopicConsumer
  \/ MpPublishTopics
  \/ MpRebalanceResult
  \/ MpMembershipClosed
  \/ MpExit
  \/ RbResolve
  \/ RbFinish
  \/ \E k \in RwIds : RwStopStep(k)
  \/ \E k \in RwIds : RwStopWaitDone(k)
  \/ \E k \in RwIds : RwJoin(k)
  \/ \E k \in RwIds : RwSpawnStep(k)
  \/ \E k \in RwIds : RwSpawnWaitDone(k)
  \/ \E k \in RwIds : RwMuxStep(k)
  \/ \E k \in RwIds : RwMuxSpawn(k)
  \/ GcStopDispatcher
  \/ GcStopRegistry
  \/ GcDone
  \/ StopReturns

\* The steps of the callers, the clock, the producers, the registry and the
\* dispatcher's idle timer.
EnvironmentNext ==
  \/ \E r \in Reqs : Consume(r)
  \/ \E r \in Reqs : RequestAges(r)
  \/ \E p \in Partitions : Produce(p)
  \/ \E others \in env.snapshots : MpMembershipChange(others)
  \/ DispExpire
  \/ Stop

\* A failed rebalance and its retry; the other members of the group.
FaultNext ==
  \/ RbResolveFails
  \/ MpRetry
  \/ \E p \in Partitions : OtherClaim(p)
  \/ \E p \in Partitions : OtherFetches(p)
  \/ \E p \in Partitions : OtherRelease(p)

Next == ProcessNext \/ EnvironmentNext \/ FaultNext

Spec == Init /\ [][Next]_vars

\* The request path with every step of the process taken eventually.
InitLive ==
  /\ AssignIdle /\ EcInit /\ ReqInit /\ GroupInit
  /\ env \in {LoadScenario, MessageScenario, TwoPartitionScenario}

NextLive == ProcessNext \/ EnvironmentNext

SpecLive == InitLive /\ [][NextLive]_vars /\ WF_vars(ProcessNext)

\* The delivery of the messages of a partition in order, next to the load
\* and the shutdown.
InitOrder ==
  /\ AssignIdle /\ EcInit /\ ReqInit /\ GroupInit
  /\ env \in {LoadScenario, MessageScenario, OrderScenario}

SpecOrder == InitOrder /\ [][NextLive]_vars

\* The runs in which the membership stream may close by itself, with every
\* step of the process taken eventually.
InitFail ==
  /\ AssignIdle /\ EcInit /\ ReqInit /\ GroupInit
  /\ env \in {LoadScenario, TwoPartitionScenario, RegistryFailureScenario}

NextFail == ProcessNext \/ EnvironmentNext \/ RegistryFails

SpecFail == InitFail /\ [][NextFail]_vars /\ WF_vars(ProcessNext)

\* The runs in which a topic consumer is replaced while its topic is
\* consumed, with every step of the process taken eventually.
InitRespawn ==
  /\ AssignIdle /\ EcInit /\ ReqInit /\ GroupInit
  /\ env \in {LoadScenario, MessageScenario, TwoPartitionScenario, RespawnScenario}

SpecRespawn == InitRespawn /\ [][NextLive]_vars /\ WF_vars(ProcessNext)

\* The calls of assignPartitionsToSubscribers alone, on every input.
InitAssign ==
  /\ AssignInit /\ EcInit /\ ReqInit /\ GroupInit
  /\ env = NoEnvironment

NextAssign ==
  \/ AssignCall /\ UNCHANGED << ecVars, mux, crashed, reqVars, groupVars, env >>
  \/ AssignReorder /\ UNCHANGED << ecVars, mux, crashed, reqVars, groupVars, env >>

SpecAssign == InitAssign /\ [][NextAssign]_vars

(***************************************************************************)
(* Properties of the request path.                                         *)
(***************************************************************************)

ExpiredRequestTimesOut ==
  /\ [](\A r \in Reqs : req[r].expiredAtDequeue => req[r].replies = << TimeoutResult >>)
  /\ [][\A r \in Reqs :
          (~req[r].expiredAtDequeue /\ req'[r].expiredAtDequeue) =>
            (mux' = mux /\ ec' = ec)]_vars

\* C10 witness: an expired request has been dequeued while a multiplexer was
\* offering a message to the topic consumer.
ExpiredDequeuedWithMessageOnOffer ==
  \E r \in Reqs, m \in MuxIds :
    /\ req[r].expiredAtDequeue
    /\ mux[m].pc = "forward"
    /\ mux[m].out = tc.gen
    /\ tc.pc = "idle"

(***************************************************************************)
(* Properties of the exclusive consumer.                                   *)
(***************************************************************************)

\* The step is a call of pom.SubmitOffset by the exclusive consumer e.
SubmitStep(e) ==
  /\ ec'[e].pc # "claim"
  /\ \/ ec'[e].lastSubmittedOffset # ec[e].lastSubmittedOffset
     \/ ~ec[e].dirty /\ ec'[e].dirty

\* The step submits msg.Offset + 1 on the ack of the message on offer.
AckedSubmit(e) ==
  /\ ec[e].pc = "offer"
  /\ ec[e].msg # None
  /\ \E m \in MuxIds : mux[m].pc = "ack" /\ mux[m].src = Some(e)
  /\ ec'[e].lastSubmittedOffset = ec[e].msg[1] + 1

\* The step submits the offset ConsumePartition resolved OffsetNewest to.
PrimingSubmit(e) ==
  /\ ec[e].pc = "initial"
  /\ kafkaCommitted[PartitionOf(e)] = OffsetNewest
  /\ ec'[e].lastSubmittedOffset = logEnd[PartitionOf(e)]

\* The step takes a message from the partition consumer.
FetchStep(e) ==
  /\ ec'[e].pc # "claim"
  /\ ec'[e].msg # None
  /\ ec'[e].msg # ec[e].msg

\* The offset submitted is never past the message fetched and not yet acked,
\* and a message is fetched only when none is waiting for its ack.
NoSubmitPastUnacked ==
  /\ [](\A e \in EcIds :
          (ec[e].pc = "offer" /\ ec[e].msg # None) =>
            ec[e].lastSubmittedOffset <= ec[e].msg[1])
  /\ [][\A e \in EcIds : FetchStep(e) => (ec[e].pc = "fetch" /\ ec[e].msg = None)]_vars

\* C2 as stated: every SubmitOffset call submits N+1 on the ack of the
\* message N on offer, no offset is submitted for a message fetched and not
\* acked, and the next message is fetched only after the ack.
SubmitOnlyAfterAck ==
  /\ [][\A e \in EcIds : SubmitStep(e) => AckedSubmit(e)]_vars
  /\ NoSubmitPastUnacked

\* C2 as amended: every SubmitOffset call other than the one that primes the
\* offset storage of a group with no stored offset (lines 630-633) submits
\* N+1 on the ack of the message N on offer; no offset is submitted for a
\* message fetched and not acked, and the next message is fetched only after
\* the ack.
SubmitOnlyAfterAckOrPriming ==
  /\ [][\A e \in EcIds : SubmitStep(e) => (AckedSubmit(e) \/ PrimingSubmit(e))]_vars
  /\ NoSubmitPastUnacked

\* C2 witness: message 0 was delivered and acked, offset 1 is submitted and
\* the consumer is back at fetching.
AckedThenSubmitted ==
  \E e \in EcIds, r \in Reqs :
    /\ req[r].replies = << MsgResult(PartitionOf(e), 0) >>
    /\ ec[e].pc = "fetch"
    /\ ec[e].lastSubmittedOffset = 1
    /\ ec[e].msg = None

\* C5: the step that releases the partition claim of an exclusive consumer
\* that got past its initialization is taken with the last committed offset
\* it has seen equal to the last offset it submitted.
ReleaseOnlyWhenCommitted ==
  [][\A e \in EcIds :
       (/\ owner[PartitionOf(e)] = Some(e)
        /\ owner'[PartitionOf(e)] # Some(e)
        /\ ec[e].initialized) =>
         ec'[e].observed = ec'[e].lastSubmittedOffset]_vars

\* C5 witness: a consumer that held the claim returned after it waited at
\* done for the commit of offset 1 (lines 684-687).
ReleasedAfterDrain ==
  \E e \in EcIds :
    /\ ec[e].pc = "done"
    /\ ec[e].claimed
    /\ ec[e].initialized
    /\ ec[e].lastSubmittedOffset = 1
    /\ ec[e].lastCommittedOffset # 1
    /\ ec[e].observed = 1
    /\ owner[PartitionOf(e)] = None

\* C4: while an exclusive consumer of another member of the group is past
\* its initialization for a partition, no exclusive consumer of this process
\* is past its initialization for it.
OneInitializedConsumerPerPartition ==
  \A e \in EcIds :
    owner[PartitionOf(e)] = Some(OtherFetching) =>
      ~(ec[e].initialized /\ ec[e].pc \in {"fetch", "offer", "drain"})

\* C3: once Stop has returned every exclusive consumer the process ran has
\* terminated, with the last committed offset it saw equal to the last
\* offset it submitted.
StoppedMeansConsumersDone ==
  stopPc = "returned" =>
    \A e \in EcIds :
      /\ ec[e].pc \in {"none", "done"}
      /\ ec[e].observed = ec[e].lastSubmittedOffset

(***************************************************************************)
(* Properties of the rebalancing.                                          *)
(***************************************************************************)

\* The step delivers a message of multiplexer m to the topic consumer.
Delivery(m) == mux[m].pc = "forward" /\ mux'[m].pc = "ack"

\* C6 as stated: no message of a partition reaches the topic consumer once
\* a rewire for an assignment without the partition has started to tear the
\* multiplexer down.
NoDeliveryOnceTeardownStarted ==
  [][\A m \in MuxIds :
       Delivery(m) =>
         ~\E k \in RwIds :
            /\ rw[k].pc = "stopWait"
            /\ rw[k].m = m
            /\ PartitionOf(mux[m].src[1]) \notin rw[k].assigned]_vars

\* C6 as amended: no message of a partition reaches the topic consumer once
\* a rewire for an assignment without the partition has torn the multiplexer
\* down (multiplexer.stop() has returned): every message delivered comes
\* through the multiplexer the gear holds, from the exclusive consumer the
\* gear holds for the partition, which has not been stopped.
DeliveryOnlyFromGear ==
  [][\A m \in MuxIds :
       Delivery(m) =>
         LET e == mux[m].src[1]
         IN  /\ tg.multiplexer = m
             /\ tg.exclusiveConsumers[PartitionOf(e)] = Some(e)
             /\ ~ec[e].stopping]_vars

\* C6 witness: partition 0 went to another member with message 0 still on
\* offer; its exclusive consumer has returned and the gear's multiplexer
\* reads partition 1 only.
DeassignedPartitionTornDown ==
  \E m \in MuxIds :
    /\ ec[<< 0, 1 >>].pc = "done"
    /\ ec[<< 0, 1 >>].msg = Some(0)
    /\ tg.exclusiveConsumers[0] = None
    /\ tg.multiplexer = m
    /\ mux[m].pc = "select"
    /\ mux[m].ins = {<< 1, 1 >>}

\* The offsets of the messages of partition p that answered the calls, in
\* the order of the calls, which is the order the topic consumer took them.
DeliveredOffsets(p) ==
  LET F[n \in 0..MaxRequests] ==
        IF n = 0 THEN << >>
        ELSE IF /\ req[n].replies # << >>
                /\ req[n].replies[1][1] = "msg"
                /\ req[n].replies[1][2] = p
             THEN Append(F[n - 1], req[n].replies[1][3])
             ELSE F[n - 1]
  IN  F[MaxRequests]

\* C11: the messages of a partition reach the topic consumer in strictly
\* increasing offset order, none twice, and each delivery is of the message
\* its exclusive consumer is offering, which is the one after the last it
\* had acknowledged; this also when the multiplexer is stopped and replaced
\* while the message is on offer.
DeliveredInOffsetOrder ==
  /\ [](\A p \in Partitions :
          \A i, j \in 1..Len(DeliveredOffsets(p)) :
            i < j => DeliveredOffsets(p)[i] < DeliveredOffsets(p)[j])
  /\ [][\A m \in MuxIds :
          Delivery(m) =>
            LET e == mux[m].src[1]
            IN  /\ ec[e].pc = "offer"
                /\ ec[e].msg = Some(ec[e].cursor - 1)
                /\ req'[tc.cur[1]].replies =
                     << MsgResult(PartitionOf(e), ec[e].cursor - 1) >>]_vars

\* C11 witness: message 0 of partition 1 answered the first call, and the
\* multiplexer that took message 1 from the same exclusive consumer is being
\* stopped by a rewire while the message is on offer.
MultiplexerStoppedWithMessageOnOffer ==
  \E m \in MuxIds, k \in RwIds :
    /\ req[1].replies = << MsgResult(1, 0) >>
    /\ ec[<< 1, 1 >>].msg = Some(1)
    /\ ec[<< 1, 1 >>].pc = "offer"
    /\ mux[m].pc = "forward"
    /\ mux[m].src = Some(<< 1, 1 >>)
    /\ mux[m].stopping
    /\ rw[k].m = m
    /\ rw[k].pc \in {"stopWait", "spawnWait"}

\* C12 as stated: the offset of the message a Consume call returns is
\* strictly greater than the offset committed for its partition when the
\* call was made, the committed offsets being the values submitted.
ReturnedOffsetAboveCommitted ==
  \A r \in Reqs :
    (req[r].replies # << >> /\ req[r].replies[1][1] = "msg") =>
      req[r].replies[1][3] > req[r].committed[req[r].replies[1][2]]

\* C12 as amended: the offset of the message a Consume call returns is at
\* least the offset committed for its partition when the call was made; the
\* committed offset is the offset after the last acknowledged message, so the
\* one returned is never a message acknowledged and committed before the call.
ReturnedOffsetNotBelowCommitted ==
  \A r \in Reqs :
    (req[r].replies # << >> /\ req[r].replies[1][1] = "msg") =>
      req[r].replies[1][3] >= req[r].committed[req[r].replies[1][2]]

\* C12 witness: message 0 was returned and acknowledged and offset 1 was
\* committed before the second call, which returned message 1.
SecondCallReturnsCommittedOffset ==
  /\ req[1].replies = << MsgResult(1, 0) >>
  /\ req[2].replies = << MsgResult(1, 1) >>
  /\ req[2].committed[1] = 1

\* The exclusive consumers the gear holds.
GearConsumers ==
  {tg.exclusiveConsumers[p][1] :
     p \in {q \in Partitions : tg.exclusiveConsumers[q] # None}}

\* The step stops an exclusive consumer of the gear or adds one to it.
GearConsumersChange ==
  \/ tg'.exclusiveConsumers # tg.exclusiveConsumers
  \/ \E e \in GearConsumers : ~ec[e].stopping /\ ec'[e].stopping

\* C13: while a multiplexer runs it is the one the gear holds and its inputs
\* are the exclusive consumers the gear holds, none of them stopped; an
\* exclusive consumer of the gear is stopped or spawned only when no
\* multiplexer runs.
TearDownFirst ==
  /\ [](\A m \in MuxIds :
          mux[m].pc \notin {"none", "exited"} =>
            /\ tg.multiplexer = m
            /\ mux[m].ins = GearConsumers
            /\ \A e \in GearConsumers : ~ec[e].stopping)
  /\ [][GearConsumersChange =>
          \A m \in MuxIds : mux[m].pc \in {"none", "exited"}]_vars

\* The partitions the gear g holds an exclusive consumer for.
GearPartitions(g) == {p \in Partitions : g.exclusiveConsumers[p] # None}

\* The step is the last of the call k of rewireMultiplexer.
RewireCompletes(k) == rw[k].pc \in {"mux", "muxSpawn"} /\ rw'[k].pc = "done"

\* C14: when a call of rewireMultiplexer(gear, assigned) completes, the gear
\* holds an exclusive consumer for exactly the assigned partitions and has a
\* multiplexer if and only if it holds an exclusive consumer; when a
\* rebalance completes, a gear in topicGears has a multiplexer.
RewireEstablishesAssignment ==
  /\ [][\A k \in RwIds :
          RewireCompletes(k) =>
            /\ GearPartitions(tg') = rw[k].assigned
            /\ (tg'.multiplexer # 0) <=> (GearPartitions(tg') # {})]_vars
  /\ [][(rb.pc = "wait" /\ rb'.pc = "idle") =>
          (tg'.inMap => tg'.multiplexer # 0)]_vars

\* The step starts a rebalance goroutine with the snapshot managePartitions
\* holds (line 283).
RebalanceStarts ==
  /\ rbRunning' = rbRunning + 1
  /\ rb'.pc = "resolve"
  /\ rb'.subs = mp'.subs

\* managePartitions receives an error from rebalanceResultCh (line 265).
ErrorReceived ==
  /\ rebalanceResultCh # << >>
  /\ Head(rebalanceResultCh) = "err"
  /\ rebalanceResultCh' = Tail(rebalanceResultCh)

\* C15: a rebalance that cannot fetch the partition list ends with the gear,
\* the multiplexers and the exclusive consumers as they were and with the
\* error on rebalanceResultCh; managePartitions, on receiving the error, arms
\* the retry timer with a rebalance allowed; and the armed timer goes away
\* only in a step that starts a rebalance with the current snapshot, which
\* is the timer firing or the next membership change.
FetchFailureRetried ==
  /\ [][(rb.pc = "resolve" /\ rb'.pc = "idle") =>
          /\ rebalanceResultCh' = Append(rebalanceResultCh, "err")
          /\ tg' = tg /\ mux' = mux /\ ec' = ec]_vars
  /\ [][ErrorReceived => (mp'.retry /\ mp'.canRebalance /\ mp'.pc = "loop")]_vars
  /\ [](mp.retry => (mp.canRebalance /\ rbRunning = 0))
  /\ [][(mp.retry /\ ~mp'.retry) => RebalanceStarts]_vars

\* C15 witness: the partition list could not be fetched once, and the
\* rebalance started after it has built the gear of partition 0.
GearBuiltAfterFailedRebalance ==
  /\ env.failed = 1
  /\ ~mp.retry
  /\ rebalanceResultCh = << >>
  /\ tg.inMap
  /\ tg.multiplexer # 0
  /\ tg.exclusiveConsumers[0] # None

\* managePartitions receives a snapshot of the group's subscriptions
\* (line 259).
MembershipReceived == env'.membership < env.membership

MembershipClosedShutsDown ==
  /\ reg.closed ~> (mp.pc = "exited" /\ ~tg.inMap)
  /\ (reg.closed /\ tc.pc \in {"add", "delete"}) ~> (tc.pc \notin {"add", "delete"})
  /\ (reg.closed /\ stopPc = "called") ~> (stopPc = "returned")

\* The goroutine of the exclusive consumer has started and not returned.
EcRunning(e) == ec[e].pc \notin {"none", "done"}

\* No exclusive consumer of this process runs or holds a claim.
ExclusiveConsumersGone ==
  /\ \A e \in EcIds : ~EcRunning(e)
  /\ \A p \in Partitions : owner[p] \in {None, Some(OtherMember), Some(OtherFetching)}

\* C18: at shutdown the rewiring of the gears to nothing starts only when the
\* dispatcher has stopped, and the registry is stopped only when that
\* rewiring is over and no exclusive consumer runs or holds a claim.
ShutdownOrder ==
  /\ [][(rw["sd"].pc = "idle" /\ rw'["sd"].pc # "idle") => disp.pc = "stopped"]_vars
  /\ [][(~reg.closed /\ reg'.closed) =>
          /\ disp.pc = "stopped"
          /\ rw["sd"].pc \in {"idle", "done"}
          /\ ExclusiveConsumersGone]_vars

\* The topic consumer takes a request from its requests channel (line 530).
DequeueStep ==
  /\ tc'.gen = tc.gen
  /\ Len(tc'.requestsCh) < Len(tc.requestsCh)

\* The topic consumer leaves its loop and goes to deregister (lines 524-526).
DeregisterStep == tc.pc # "delete" /\ tc'.pc = "delete"

\* C19 as stated: once its requests channel is closed the topic consumer
\* takes no request from it.
NoDequeueAfterClose == [][tc.closed => ~DequeueStep]_vars

\* C19 amended: a closed requests channel gets no new request; the topic
\* consumer goes on taking the requests that are still buffered in it, each
\* of which is answered in the same step or becomes the one request served;
\* and it goes to deregister only when the closed channel is empty and no
\* request is being served, so that no request is left unanswered in it.
BufferedRequestsServedAfterClose ==
  /\ [][(tc.closed /\ tc'.gen = tc.gen) =>
          Len(tc'.requestsCh) <= Len(tc.requestsCh)]_vars
  /\ [][(tc.closed /\ DequeueStep) =>
          LET r == Head(tc.requestsCh)
          IN  \/ req'[r].replies = << TimeoutResult >>
              \/ tc'.cur = Some(r) /\ req'[r].st = "cur"]_vars
  /\ [][DeregisterStep =>
          (tc.closed /\ tc.requestsCh = << >> /\ tc.cur = None)]_vars
  /\ [](tc.pc \in {"delete", "stopped"} =>
          \A r \in Reqs : req[r].st \notin {"tcq", "cur"})

\* C19 witness: the topic consumer serves a request that it took from its
\* requests channel after stop() had closed the channel.
RequestTakenAfterCloseIsServed ==
  /\ tc.closed
  /\ tc.pc = "serve"
  /\ tc.afterClose
  /\ tc.cur # None
  /\ req[tc.cur[1]].st = "cur"

\* A topic consumer is added to or deleted from topicConsumers (lines 246,
\* 251).
TopicConsumersChange == mp'.topicConsumers # mp.topicConsumers

\* The registry takes the topic list from the publish slot (line 256).
PublishStep == mp.publish /\ ~mp'.publish

\* What C20 says of every step: a change of topicConsumers recomputes the
\* topic list and arms the publish slot, the list the registry receives is
\* the key set of topicConsumers at the time of the send, and with nothing
\* armed the registry holds the current topic set.
TopicsRecomputedAndSent ==
  /\ [][TopicConsumersChange =>
          (mp'.topics = listTopics(mp'.topicConsumers) /\ mp'.publish)]_vars
  /\ [][PublishStep =>
          (reg'.subscribed <=> "topic" \in listTopics(mp.topicConsumers))]_vars
  /\ [](~mp.publish =>
          (reg.subscribed <=> "topic" \in listTopics(mp.topicConsumers)))

\* C20 as stated: in addition, an armed publish slot is eventually taken by
\* the registry.
TopicsEventuallyPublished ==
  /\ TopicsRecomputedAndSent
  /\ mp.publish ~> ~mp.publish

\* C20 amended: an armed publish slot is eventually taken by the registry
\* unless the registry is stopped first.
TopicsPublishedWhileRegistryRuns ==
  /\ TopicsRecomputedAndSent
  /\ mp.publish ~> (~mp.publish \/ reg.closed)

\* C20 witness: the topic consumer has been disposed of and deleted, and the
\* registry, still running, has received the empty topic list.
EmptyTopicListPublishedAfterDelete ==
  /\ tc.pc = "stopped"
  /\ mp.pc = "loop"
  /\ mp.topicConsumers = 0
  /\ mp.topics = {}
  /\ ~mp.publish
  /\ ~reg.subscribed
  /\ ~reg.closed

\* The goroutine of the multiplexer has started and not returned.
MuxRunning(m) == mux[m].pc \notin {"none", "exited"}

\* C21: once the group consumer has signalled that it stopped, no rebalance
\* goroutine and no rewireMultiplexer call of it is running, and none of its
\* exclusive consumers and multiplexers is running, so that none is spawned
\* afterwards either.
StoppedGroupHasNoChildren ==
  gcPc = "done" =>
    /\ rb.pc = "idle"
    /\ rbRunning = 0
    /\ \A k \in RwIds : rw[k].pc \in {"idle", "done"}
    /\ \A e \in EcIds : ~EcRunning(e)
    /\ \A m \in MuxIds : ~MuxRunning(m)

\* The rewireMultiplexer call k has started and not returned.
RwActive(k) == rw[k].pc \notin {"idle", "done"}

\* C22: the rewireMultiplexer call of the shutdown and the one of a rebalance
\* never run at the same time, the shutdown rewiring never runs while a
\* rebalance goroutine does, no stop() closes a stop channel that is closed
\* already (which panics), and at most one multiplexer runs for the gear.
RewiresNeverOverlap ==
  /\ ~(RwActive("rb") /\ RwActive("sd"))
  /\ mp.pc = "wait" => rb.pc = "idle"
  /\ ~crashed
  /\ Cardinality({m \in MuxIds : MuxRunning(m)}) <= 1

\* The gear has a multiplexer that forwards to a topic consumer other than
\* the one registered in managePartitions.
StaleGear ==
  /\ tg.inMap
  /\ tg.multiplexer # 0
  /\ MuxRunning(tg.multiplexer)
  /\ mp.topicConsumers # 0
  /\ tg.topicConsumer # mp.topicConsumers

\* C23: a gear whose multiplexer forwards to another topic consumer than the
\* registered one does not stay so: the gear is torn down or comes to
\* forward to the registered topic consumer.
GearFollowsRegisteredConsumer == StaleGear ~> ~StaleGear

\* C7: at most one rebalance goroutine is running, and managePartitions may
\* start one only when none is running and no result is waiting on
\* rebalanceResultCh.
AtMostOneRebalance ==
  /\ rbRunning <= 1
  /\ mp.canRebalance => (rbRunning = 0 /\ rebalanceResultCh = << >>)

\* C7 witness: a membership change arrived while a rebalance is running; the
\* next rebalance waits for its result.
RebalancePendingWhileRunning ==
  /\ rbRunning = 1
  /\ mp.shouldRebalance
  /\ ~mp.canRebalance

====
